---- MODULE Spec2Model ----
(***************************************************************************)
(* E-commerce analytics API (src/api/main.py): the request lifecycle of    *)
(* the five database-backed endpoints and the SQL aggregations they run.   *)
(*                                                                         *)
(* Text is modelled as text.  A string is a sequence of character codes    *)
(* (ASCII); the WHERE clauses are built by concatenation exactly as the    *)
(* f-strings build them and are then lexed, parsed and evaluated the way   *)
(* the default SQLite backend does (BINARY collation = code-wise           *)
(* lexicographic comparison).  The constant words of the query templates   *)
(* (column names, >=, <=, =, AND) are written as ready-made symbols with   *)
(* codes >= 256; everything interpolated from a request is characters.     *)
(*                                                                         *)
(* Money is counted in whole units (integers) and a mean is kept as a      *)
(* reduced fraction <<numerator, denominator>>.                            *)
(***************************************************************************)
EXTENDS Integers, Sequences, FiniteSets, TLC

\* ---------------------------------------------------------------- bounds
MaxDay == 3        \* calendar days 41 .. 40 + MaxDay
MaxRows == 2       \* rows of sales_transactions in the small tables
MaxCust == 2       \* rows of customer_metrics in the small tables
MaxProducts == 11  \* products / customers in the large tables (one more than the LIMIT)
NSlots == 2        \* concurrently served requests

\* ------------------------------------------------------- program constants
DefaultWindow == 30   \* timedelta(days=30)
TopLimit == 10        \* LIMIT 10
QUOTE == 39           \* the ' that delimits an interpolated value
SPACE == 32
EQUALS == 61

\* ------------------------------------------------------------------ text
\* Symbols of the constant template text (never produced by a request).
Sym == [tdate |-> 256, region |-> 257, channel |-> 258, category |-> 259,
        ge |-> 260, le |-> 261, eq |-> 262, and |-> 263]

S_US == <<85, 83>>                  \* "US"
S_EU == <<69, 85>>                  \* "EU"
S_online == <<111, 110>>            \* "on"   (online)
S_store == <<115, 116>>             \* "st"   (store)
S_Electronics == <<69, 108>>        \* "El"   (Electronics)
S_Books == <<66, 111>>              \* "Bo"   (Books)
S_empty == <<>>                     \* ""
S_quote == <<QUOTE>>                \* "'"
S_inject == <<QUOTE, SPACE, 79, 82, SPACE, QUOTE, 49, QUOTE, EQUALS, QUOTE, 49>>
                                    \* "' OR '1'='1"

\* Two decimal digits, zero padded, as isoformat pads every field.
TwoDigits(n) == <<48 + (n \div 10), 48 + (n % 10)>>

\* str(date): "YYYY-MM-DD"; the year and month are the same for every date
\* of the model and are left out.
DateText(d) == TwoDigits(d)

\* SQLAlchemy's SQLite DateTime storage format "YYYY-MM-DD HH:MM:SS.ffffff";
\* minutes, seconds and microseconds are zero in every row of the model.
DateTimeText(d, h) == TwoDigits(d) \o <<SPACE>> \o TwoDigits(h)

\* memcmp order on strings: a proper prefix is smaller.
RECURSIVE LexLeqFrom(_, _, _)
LexLeqFrom(a, b, i) ==
    IF i > Len(a) THEN TRUE
    ELSE IF i > Len(b) THEN FALSE
    ELSE IF a[i] < b[i] THEN TRUE
    ELSE IF a[i] > b[i] THEN FALSE
    ELSE LexLeqFrom(a, b, i + 1)

LexLeq(a, b) == LexLeqFrom(a, b, 1)

\* ------------------------------------------------------------- SQL lexer
ErrTok == [k |-> "err", v |-> <<>>]

IsLetter(c) == (c >= 65 /\ c <= 90) \/ (c >= 97 /\ c <= 122)
Upper(c) == IF c >= 97 /\ c <= 122 THEN c - 32 ELSE c

\* Index of the quote that closes a literal opened just before i (a doubled
\* quote is an escaped quote), 0 when the literal is not terminated.
RECURSIVE LitEnd(_, _)
LitEnd(s, i) ==
    IF i > Len(s) THEN 0
    ELSE IF s[i] = QUOTE
         THEN IF i + 1 <= Len(s) /\ s[i + 1] = QUOTE THEN LitEnd(s, i + 2) ELSE i
         ELSE LitEnd(s, i + 1)

\* The value of the literal text s[i..j]: doubled quotes collapse.
RECURSIVE Unescape(_, _, _)
Unescape(s, i, j) ==
    IF i > j THEN <<>>
    ELSE IF s[i] = QUOTE THEN <<QUOTE>> \o Unescape(s, i + 2, j)
    ELSE <<s[i]>> \o Unescape(s, i + 1, j)

RECURSIVE WordEnd(_, _)
WordEnd(s, i) == IF i + 1 <= Len(s) /\ IsLetter(s[i + 1]) THEN WordEnd(s, i + 1) ELSE i

\* A bare word: a keyword, else an identifier, and no identifier a request
\* can supply names a column of the model's tables ("no such column").
WordToken(w) ==
    LET u == [i \in 1..Len(w) |-> Upper(w[i])] IN
    IF u = <<79, 82>> THEN [k |-> "or", v |-> <<>>]
    ELSE IF u = <<65, 78, 68>> THEN [k |-> "and", v |-> <<>>]
    ELSE ErrTok

SymToken(c) ==
    IF c = Sym.and THEN [k |-> "and", v |-> <<>>]
    ELSE IF c \in {Sym.ge, Sym.le, Sym.eq} THEN [k |-> "op", v |-> <<c>>]
    ELSE [k |-> "col", v |-> <<c>>]

RECURSIVE LexFrom(_, _)
LexFrom(s, i) ==
    IF i > Len(s) THEN <<>>
    ELSE LET c == s[i] IN
         IF c = SPACE THEN LexFrom(s, i + 1)
         ELSE IF c >= 256 THEN <<SymToken(c)>> \o LexFrom(s, i + 1)
         ELSE IF c = QUOTE
              THEN LET e == LitEnd(s, i + 1) IN
                   IF e = 0 THEN <<ErrTok>>
                   ELSE <<[k |-> "lit", v |-> Unescape(s, i + 1, e - 1)]>> \o LexFrom(s, e + 1)
         ELSE IF c = EQUALS THEN <<[k |-> "op", v |-> <<Sym.eq>>]>> \o LexFrom(s, i + 1)
         ELSE IF IsLetter(c)
              THEN LET e == WordEnd(s, i) IN <<WordToken(SubSeq(s, i, e))>> \o LexFrom(s, e + 1)
         ELSE <<ErrTok>>

Lex(s) == LexFrom(s, 1)

\* ------------------------------------------------------------ SQL parser
\* expr ::= conj (OR conj)* ;  conj ::= cmp (AND cmp)* ;  cmp ::= operand op operand
RECURSIVE SplitOn(_, _)
SplitOn(toks, kw) ==
    IF \A i \in 1..Len(toks) : toks[i].k # kw THEN <<toks>>
    ELSE LET p == CHOOSE i \in 1..Len(toks) :
                      toks[i].k = kw /\ \A j \in 1..(i - 1) : toks[j].k # kw
         IN <<SubSeq(toks, 1, p - 1)>> \o SplitOn(SubSeq(toks, p + 1, Len(toks)), kw)

IsOperand(t) == t.k \in {"col", "lit"}
IsCmp(ts) == Len(ts) = 3 /\ IsOperand(ts[1]) /\ ts[2].k = "op" /\ IsOperand(ts[3])

\* The parsed WHERE expression: ok = FALSE stands for the statement being
\* rejected (sqlite3.OperationalError), dnf is the OR of ANDs of comparisons.
ParseWhere(s) ==
    LET toks == Lex(s)
        ors == SplitOn(toks, "or")
        dnf == [i \in 1..Len(ors) |-> SplitOn(ors[i], "and")]
    IN [ok |-> /\ \A i \in 1..Len(toks) : toks[i].k # "err"
               /\ \A i \in 1..Len(dnf) : \A j \in 1..Len(dnf[i]) : IsCmp(dnf[i][j]),
        dnf |-> dnf]

\* ------------------------------------------------------------ SQL values
RECURSIVE GCD(_, _)
GCD(a, b) == IF b = 0 THEN a ELSE GCD(b, a % b)

\* n / d as a reduced fraction (d > 0).
Frac(n, d) == LET g == GCD(n, d) IN IF g = 0 THEN <<0, 1>> ELSE <<n \div g, d \div g>>
Zero == <<0, 1>>

RECURSIVE SumField(_, _)
SumField(S, fld) ==
    IF S = {} THEN 0
    ELSE LET r == CHOOSE x \in S : TRUE IN r[fld] + SumField(S \ {r}, fld)

\* An aggregate's value: SUM and AVG over no rows are NULL.
SqlNull == [isnull |-> TRUE, q |-> Zero]
SqlNum(q) == [isnull |-> FALSE, q |-> q]
SqlSum(S, fld) == IF S = {} THEN SqlNull ELSE SqlNum(<<SumField(S, fld), 1>>)
SqlAvg(S, fld) == IF S = {} THEN SqlNull ELSE SqlNum(Frac(SumField(S, fld), Cardinality(S)))

\* float(x or 0): NULL and 0 both become 0.
FloatOrZero(x) == IF x.isnull \/ x.q[1] = 0 THEN Zero ELSE x.q

\* ---------------------------------------------------------- WHERE on a row
\* A row of sales_transactions:
\*   [tid, pid, name, category, qty, price, amount, day, hour, region, channel]
ColText(row, c) ==
    IF c = Sym.tdate THEN DateTimeText(row.day, row.hour)
    ELSE IF c = Sym.region THEN row.region
    ELSE IF c = Sym.channel THEN row.channel
    ELSE row.category

OperandText(t, row) == IF t.k = "col" THEN ColText(row, t.v[1]) ELSE t.v

EvalCmp(ts, row) ==
    LET a == OperandText(ts[1], row)
        b == OperandText(ts[3], row)
        op == ts[2].v[1]
    IN IF op = Sym.ge THEN LexLeq(b, a)
       ELSE IF op = Sym.le THEN LexLeq(a, b)
       ELSE a = b

EvalWhere(w, row) ==
    \E i \in 1..Len(w.dnf) : \A j \in 1..Len(w.dnf[i]) : EvalCmp(w.dnf[i][j], row)

Selected(table, w) == {r \in table : EvalWhere(w, r)}

\* " AND ".join(conditions)
RECURSIVE JoinAnd(_)
JoinAnd(cs) ==
    IF Len(cs) = 0 THEN <<>>
    ELSE IF Len(cs) = 1 THEN cs[1]
    ELSE cs[1] \o <<SPACE, Sym.and, SPACE>> \o JoinAnd(Tail(cs))

\* f"{column} {op} '{value}'"
Condition(col, op, text) == <<col, SPACE, op, SPACE, QUOTE>> \o text \o <<QUOTE>>

\* ------------------------------------------------------- request parameters
NoDate == [given |-> FALSE, d |-> 0]
SomeDate(d) == [given |-> TRUE, d |-> d]
NoStr == [given |-> FALSE, v |-> <<>>]
SomeStr(v) == [given |-> TRUE, v |-> v]

\* Python truthiness of an Optional[str]: None and "" are both false.
Truthy(s) == s.given /\ s.v # <<>>

\* ------------------------------------------------------- ORDER BY ... DESC
\* Rows with equal sort keys come out in an order SQL leaves to the engine.
\* Every candidate carries the positions of its first and last source row;
\* the engine's plan either keeps the scan order ("fwd") or reverses it
\* ("bwd") among equal keys.
Precedes(g, h, key, plan) ==
    \/ g[key] > h[key]
    \/ /\ g[key] = h[key]
       /\ IF plan = "fwd" THEN g.first <= h.first ELSE g.last >= h.last

RECURSIVE OrderDesc(_, _, _)
OrderDesc(G, key, plan) ==
    IF G = {} THEN <<>>
    ELSE LET g == CHOOSE x \in G : \A y \in G : Precedes(x, y, key, plan)
         IN <<g>> \o OrderDesc(G \ {g}, key, plan)

\* LIMIT n
Limit(seq, n) == SubSeq(seq, 1, IF Len(seq) < n THEN Len(seq) ELSE n)

MinOf(S) == CHOOSE x \in S : \A y \in S : x <= y
MaxOf(S) == CHOOSE x \in S : \A y \in S : x >= y

HTTP500 == [status |-> 500, body |-> [detail |-> "Internal server error"]]

\* ------------------------------------------------- GET /api/v1/analytics/sales
\* An end date that is always today.
EndDate_Today(p, now) == now

\* The dates the handler works with: end_date defaults to today, start_date
\* to thirty days before the end date.
EndDate(p, now) == IF p.end.given THEN p.end.d ELSE now
StartDate(p, now) == IF p.start.given THEN p.start.d ELSE EndDate(p, now) - DefaultWindow

SalesWhereText(p, now) ==
    JoinAnd(<<Condition(Sym.tdate, Sym.ge, DateText(StartDate(p, now))),
              Condition(Sym.tdate, Sym.le, DateText(EndDate(p, now)))>>
            \o (IF Truthy(p.region) THEN <<Condition(Sym.region, Sym.eq, p.region.v)>> ELSE <<>>)
            \o (IF Truthy(p.channel) THEN <<Condition(Sym.channel, Sym.eq, p.channel.v)>> ELSE <<>>))

\* GROUP BY product_name, product_id with SUM(quantity), SUM(total_amount).
SalesGroups(S) ==
    { LET rows == {r \in S : <<r.name, r.pid>> = key}
      IN [product_name |-> key[1],
          total_quantity |-> SumField(rows, "qty"),
          total_revenue |-> SumField(rows, "amount"),
          first |-> MinOf({r.tid : r \in rows}),
          last |-> MaxOf({r.tid : r \in rows})]
      : key \in {<<r.name, r.pid>> : r \in S} }

SalesEntry(g) ==
    [product_name |-> g.product_name,
     total_quantity |-> g.total_quantity,
     total_revenue |-> g.total_revenue]

\* The list without its LIMIT.
TopSellingProducts_Unlimited(S, plan) ==
    LET top == OrderDesc(SalesGroups(S), "total_revenue", plan)
    IN [i \in 1..Len(top) |-> SalesEntry(top[i])]

TopSellingProducts(S, plan) ==
    LET top == Limit(OrderDesc(SalesGroups(S), "total_revenue", plan), TopLimit)
    IN [i \in 1..Len(top) |-> SalesEntry(top[i])]

\* GROUP BY region / GROUP BY channel with SUM(total_amount), as a dict.
RevenueBy(S, fld) ==
    [g \in {r[fld] : r \in S} |-> SumField({r \in S : r[fld] = g}, "amount")]

SalesBundle(S, plan) ==
    [total_revenue |-> FloatOrZero(SqlSum(S, "amount")),
     total_transactions |-> Cardinality(S),
     avg_transaction_value |-> FloatOrZero(SqlAvg(S, "amount")),
     top_selling_products |-> TopSellingProducts(S, plan),
     revenue_by_region |-> RevenueBy(S, "region"),
     revenue_by_channel |-> RevenueBy(S, "channel")]

\* The handler answering with what it has when a later call fails.
SalesResponse_Partial(table, now, p, failAt, plan) ==
    LET w == ParseWhere(SalesWhereText(p, now)) IN
    IF failAt = 1 \/ ~w.ok THEN HTTP500
    ELSE [status |-> 200, body |-> SalesBundle(Selected(table, w), plan)]

\* The whole handler.  failAt is the first of its four db.execute calls that
\* the storage layer fails (0: none); a statement SQLite rejects raises at
\* the first call.  Every exception ends in the except clause.
SalesResponse(table, now, p, failAt, plan) ==
    LET w == ParseWhere(SalesWhereText(p, now)) IN
    IF failAt # 0 \/ ~w.ok THEN HTTP500
    ELSE [status |-> 200, body |-> SalesBundle(Selected(table, w), plan)]

\* --------------------------------------------- GET /api/v1/analytics/customers
\* A row of customer_metrics: [id, cid, spent, orders, clv, active]
CustomerEntry(c) ==
    [customer_id |-> c.cid, total_spent |-> c.spent,
     total_orders |-> c.orders, customer_lifetime_value |-> c.clv]

TopCustomers(C, plan) ==
    LET cand == {[row |-> c, clv |-> c.clv, first |-> c.id, last |-> c.id] : c \in C}
        top == Limit(OrderDesc(cand, "clv", plan), TopLimit)
    IN [i \in 1..Len(top) |-> CustomerEntry(top[i].row)]

\* Python's a / b: ZeroDivisionError (written <<0, 0>>) when b = 0.
DivError == <<0, 0>>
Divide(a, b) == IF b = 0 THEN DivError ELSE Frac(a, b)

\* The rate without its guard.
RetentionRate_Unguarded(active, total) == Divide(active * 100, total)

\* (active_customers / total_customers * 100) if total_customers > 0 else 0
RetentionRate(active, total) == IF total > 0 THEN Divide(active * 100, total) ELSE Zero

CustomerBundle(C, plan) ==
    LET total == Cardinality(C)
        active == Cardinality({c \in C : c.active})
    IN [total_customers |-> total,
        active_customers |-> active,
        avg_customer_lifetime_value |-> FloatOrZero(SqlAvg(C, "clv")),
        customer_retention_rate |-> RetentionRate(active, total),
        top_customers |-> TopCustomers(C, plan)]

\* The start_date and end_date parameters are accepted and not used.
CustomerResponse(C, p, failAt, plan) ==
    LET bundle == CustomerBundle(C, plan) IN
    IF failAt # 0 \/ bundle.customer_retention_rate = DivError THEN HTTP500
    ELSE [status |-> 200, body |-> bundle]

\* ---------------------------------------------- GET /api/v1/analytics/products
\* f" WHERE category = '{category}'", appended when a category is given.
ProductWhereText(p) == Condition(Sym.category, Sym.eq, p.category.v)

\* GROUP BY product_id, product_name, category.
ProductGroups(S) ==
    { LET rows == {r \in S : <<r.pid, r.name, r.category>> = key}
      IN [product_name |-> key[2],
          category |-> key[3],
          total_sold |-> SumField(rows, "qty"),
          total_revenue |-> SumField(rows, "amount"),
          avg_price |-> Frac(SumField(rows, "price"), Cardinality(rows)),
          first |-> MinOf({r.tid : r \in rows}),
          last |-> MaxOf({r.tid : r \in rows})]
      : key \in {<<r.pid, r.name, r.category>> : r \in S} }

ProductEntry(g) ==
    [product_name |-> g.product_name, category |-> g.category,
     total_sold |-> g.total_sold, total_revenue |-> g.total_revenue,
     avg_price |-> g.avg_price]

TopPerformingProducts(S, plan) ==
    LET top == Limit(OrderDesc(ProductGroups(S), "total_revenue", plan), TopLimit)
    IN [i \in 1..Len(top) |-> ProductEntry(top[i])]

\* GROUP BY category ORDER BY revenue DESC over the whole table, read into a
\* dict: the sequence of its items, in insertion order.
CategoryPerformance(table, plan) ==
    LET G == { LET rows == {r \in table : r.category = c}
               IN [category |-> c,
                   revenue |-> SumField(rows, "amount"),
                   first |-> MinOf({r.tid : r \in rows}),
                   last |-> MaxOf({r.tid : r \in rows})]
               : c \in {r.category : r \in table} }
        ord == OrderDesc(G, "revenue", plan)
    IN [i \in 1..Len(ord) |-> [category |-> ord[i].category, revenue |-> ord[i].revenue]]

\* max(d, key=d.get) and min(d, key=d.get): the first key, in iteration
\* order, whose value is the largest (smallest).
FirstMaxKey(items) ==
    LET i == CHOOSE i \in 1..Len(items) :
                 /\ \A j \in 1..Len(items) : items[j].revenue <= items[i].revenue
                 /\ \A j \in 1..(i - 1) : items[j].revenue < items[i].revenue
    IN items[i].category

\* min written as max.
FirstMinKey_AsMax(items) == FirstMaxKey(items)

FirstMinKey(items) ==
    LET i == CHOOSE i \in 1..Len(items) :
                 /\ \A j \in 1..Len(items) : items[j].revenue >= items[i].revenue
                 /\ \A j \in 1..(i - 1) : items[j].revenue > items[i].revenue
    IN items[i].category

\* A category name or None.
NoCategory == [isnull |-> TRUE, v |-> <<>>]
SomeCategory(c) == [isnull |-> FALSE, v |-> c]

InventoryInsights(items) ==
    [total_categories |-> Len(items),
     most_profitable_category |->
         IF Len(items) > 0 THEN SomeCategory(FirstMaxKey(items)) ELSE NoCategory,
     least_profitable_category |->
         IF Len(items) > 0 THEN SomeCategory(FirstMinKey(items)) ELSE NoCategory]

ProductBundle(table, S, plan) ==
    LET items == CategoryPerformance(table, plan) IN
    [total_products |-> Cardinality({r.pid : r \in S}),
     top_performing_products |-> TopPerformingProducts(S, plan),
     category_performance |-> items,
     inventory_insights |-> InventoryInsights(items)]

\* The whole handler: three db.execute calls.
ProductResponse(table, p, failAt, plan) ==
    LET filtered == Truthy(p.category)
        w == ParseWhere(ProductWhereText(p))
    IN IF failAt # 0 \/ (filtered /\ ~w.ok) THEN HTTP500
       ELSE [status |-> 200,
             body |-> ProductBundle(table, IF filtered THEN Selected(table, w) ELSE table, plan)]

\* ------------------------------------------------------------ GET /health
\* The check without its try/except.
HealthResponse_Raises(now, failAt) ==
    IF failAt # 0 THEN HTTP500
    ELSE [status |-> 200,
          body |-> [status |-> "healthy", timestamp |-> now,
                    database_status |-> "healthy", environment |-> "development"]]

\* SELECT 1; a failure is caught and reported in the body.
HealthResponse(now, failAt) ==
    LET db_status == IF failAt = 0 THEN "healthy" ELSE "unhealthy" IN
    [status |-> 200,
     body |-> [status |-> IF db_status = "healthy" THEN "healthy" ELSE "unhealthy",
               timestamp |-> now,
               database_status |-> db_status,
               environment |-> "development"]]

\* ------------------------------------------------- POST /api/v1/data/seed
\* One count query; nothing is generated or inserted on either branch.
SeedResponse(table, failAt) ==
    LET existing_count == Cardinality(table) IN
    IF failAt # 0 THEN HTTP500
    ELSE IF existing_count > 0
         THEN [status |-> 200, body |-> [message |-> "already contains", count |-> existing_count]]
         ELSE [status |-> 200, body |-> [message |-> "not implemented", count |-> 0]]

\* A seed that fills an empty table.
SeedRows_Insert(table) ==
    IF table = {}
    THEN {[tid |-> 1, pid |-> 1, name |-> "Sample", category |-> <<83>>, qty |-> 1,
           price |-> 1, amount |-> 1, day |-> 41, hour |-> 0,
           region |-> <<85, 83>>, channel |-> <<111, 110>>]}
    ELSE table

\* The rows the seed request leaves in sales_transactions.
SeedRows(table) == table

\* ------------------------------------------------------------- the data
Days == 41..(40 + MaxDay)

SalesRow(tid, pid, name, cat, qty, price, amount, day, hour, region, channel) ==
    [tid |-> tid, pid |-> pid, name |-> name, category |-> cat, qty |-> qty,
     price |-> price, amount |-> amount, day |-> day, hour |-> hour,
     region |-> region, channel |-> channel]

\* Two rows of one product, a third that gives the same product_id another
\* name, a product that ties with the first on revenue, and a product that
\* shares its name with another; on the first, the second and the third day,
\* at midnight and at noon.
SalesUniverse ==
    {SalesRow(1, 1, "Widget", S_Electronics, 1, 100, 100, 41, 0, S_US, S_online),
     SalesRow(2, 1, "Widget", S_Electronics, 2, 25, 50, 41, 12, S_US, S_online),
     SalesRow(3, 1, "Gadget", S_Books, 1, 50, 50, 41, 12, S_EU, S_store),
     SalesRow(4, 2, "Gizmo", S_Books, 3, 50, 150, 42, 0, S_EU, S_store),
     SalesRow(5, 3, "Gizmo", S_Electronics, 1, 70, 70, 43, 12, S_US, S_store)}

CustomerRow(id, cid, spent, orders, clv, active) ==
    [id |-> id, cid |-> cid, spent |-> spent, orders |-> orders, clv |-> clv, active |-> active]

CustomerUniverse ==
    {CustomerRow(1, "c1", 100, 2, 10, TRUE),
     CustomerRow(2, "c2", 50, 1, 20, FALSE),
     CustomerRow(3, "c3", 70, 3, 20, TRUE),
     CustomerRow(4, "c4", 90, 4, 30, FALSE)}

\* Large tables: n products (customers) of one row each, with revenues
\* (lifetime values) all different or falling into three tied classes.
BigSales(n, tied) ==
    {SalesRow(i, i, "Item", S_Electronics, 1, 10, IF tied THEN 10 + (i % 3) ELSE 10 + i,
              41, 0, S_US, S_online) : i \in 1..n}

BigCustomers(n, tied) ==
    {CustomerRow(i, "c", 10, 1, IF tied THEN 10 + (i % 3) ELSE 10 + i, i % 2 = 0) : i \in 1..n}

Database(S, C) == [sales |-> S, customers |-> C]

Databases ==
    {Database(S, {}) : S \in {T \in SUBSET SalesUniverse : Cardinality(T) <= MaxRows}}
    \cup {Database({}, C) : C \in {T \in SUBSET CustomerUniverse : Cardinality(T) <= MaxCust}}
    \cup {Database(BigSales(n, t), {}) : n \in {MaxProducts - 1, MaxProducts}, t \in BOOLEAN}
    \cup {Database({}, BigCustomers(n, t)) : n \in {MaxProducts - 1, MaxProducts}, t \in BOOLEAN}

\* ---------------------------------------------------------- the requests
Slots == 1..NSlots
Plans == {"fwd", "bwd"}
Endpoints == {"root", "health", "sales", "customers", "products", "seed"}

OptDates == {NoDate} \cup {SomeDate(d) : d \in Days}
Regions == {NoStr, SomeStr(S_US), SomeStr(S_empty), SomeStr(S_quote), SomeStr(S_inject)}
Channels == {NoStr, SomeStr(S_online)}
Categories == {NoStr, SomeStr(S_Electronics), SomeStr(S_quote), SomeStr(S_inject)}

NoParams ==
    [start |-> NoDate, end |-> NoDate, region |-> NoStr, channel |-> NoStr, category |-> NoStr]

\* The query parameters each route declares.
ParamsOf(e) ==
    IF e = "sales"
    THEN [start : OptDates, end : OptDates, region : Regions, channel : Channels,
          category : {NoStr}]
    ELSE IF e = "customers"
    THEN [start : OptDates, end : OptDates, region : {NoStr}, channel : {NoStr},
          category : {NoStr}]
    ELSE IF e = "products"
    THEN [start : {NoDate}, end : {NoDate}, region : {NoStr}, channel : {NoStr},
          category : Categories]
    ELSE {NoParams}

\* The db.execute / db.query calls of each handler.
Queries(e) ==
    IF e = "sales" THEN 4
    ELSE IF e = "customers" THEN 4
    ELSE IF e = "products" THEN 3
    ELSE IF e \in {"health", "seed"} THEN 1
    ELSE 0

NoResponse == [status |-> 0, body |-> [detail |-> ""]]

\* ------------------------------------------------------------- the state
VARIABLES
    sales,       \* rows of sales_transactions
    customers,   \* rows of customer_metrics
    today,       \* date.today()
    pc,          \* per request slot: idle, received, acquired, cleanup, done
    ep,          \* the route of the slot's request
    params,      \* its query parameters
    db,          \* the session get_db yielded to it (0: none)
    acquired,    \* sessions the request has been given
    fault,       \* the first storage call that failed in its handler (0: none)
    servedOn,    \* the date its handler read
    resp,        \* its response
    sessions     \* session id -> the slot it was opened for (0: closed)

vars == <<sales, customers, today, pc, ep, params, db, acquired, fault, servedOn, resp, sessions>>

tables == <<sales, customers>>

InitFrom(DBs, D) ==
    /\ \E d \in DBs : sales = d.sales /\ customers = d.customers
    /\ today \in D
    /\ pc = [r \in Slots |-> "idle"]
    /\ ep = [r \in Slots |-> "root"]
    /\ params = [r \in Slots |-> NoParams]
    /\ db = [r \in Slots |-> 0]
    /\ acquired = [r \in Slots |-> 0]
    /\ fault = [r \in Slots |-> 0]
    /\ servedOn = [r \in Slots |-> 0]
    /\ resp = [r \in Slots |-> NoResponse]
    /\ sessions = [s \in Slots |-> 0]

Init == InitFrom(Databases, Days)

\* ------------------------------------------------------------- get_db
\* SessionLocal(): a session of its own for the request.
FreshSession(sess) == MinOf({s \in DOMAIN sess : sess[s] = 0})
OpenSession(sess, sid, r) == [sess EXCEPT ![sid] = r]
\* A close that reaches for the session opened last, not the request's own.
CloseSession_Latest(sess, sid) ==
    LET open == {s \in DOMAIN sess : sess[s] # 0}
    IN IF open = {} THEN sess ELSE [sess EXCEPT ![MaxOf(open)] = 0]

\* db.close() in the finally clause.
CloseSession(sess, sid) == [sess EXCEPT ![sid] = 0]

\* ------------------------------------------------------------ the actions
\* A request arrives in a free slot with validated parameters.
Receive(r, e, p) ==
    /\ pc[r] = "idle"
    /\ pc' = [pc EXCEPT ![r] = "received"]
    /\ ep' = [ep EXCEPT ![r] = e]
    /\ params' = [params EXCEPT ![r] = p]
    /\ UNCHANGED <<sales, customers, today, db, acquired, fault, servedOn, resp, sessions>>

\* The exchange is over; nothing of it is kept.
Complete(r) ==
    /\ pc[r] = "done"
    /\ pc' = [pc EXCEPT ![r] = "idle"]
    /\ ep' = [ep EXCEPT ![r] = "root"]
    /\ params' = [params EXCEPT ![r] = NoParams]
    /\ db' = [db EXCEPT ![r] = 0]
    /\ acquired' = [acquired EXCEPT ![r] = 0]
    /\ fault' = [fault EXCEPT ![r] = 0]
    /\ servedOn' = [servedOn EXCEPT ![r] = 0]
    /\ resp' = [resp EXCEPT ![r] = NoResponse]
    /\ UNCHANGED <<sales, customers, today, sessions>>

\* GET /: no Depends(get_db).
Root(r) ==
    /\ pc[r] = "received" /\ ep[r] = "root"
    /\ resp' = [resp EXCEPT ![r] = [status |-> 200, body |-> [detail |-> "Welcome"]]]
    /\ pc' = [pc EXCEPT ![r] = "done"]
    /\ UNCHANGED <<sales, customers, today, ep, params, db, acquired, fault, servedOn, sessions>>

\* get_db up to its yield.
Acquire(r) ==
    /\ pc[r] = "received" /\ ep[r] # "root"
    /\ LET sid == FreshSession(sessions) IN
       /\ sessions' = OpenSession(sessions, sid, r)
       /\ db' = [db EXCEPT ![r] = sid]
    /\ acquired' = [acquired EXCEPT ![r] = @ + 1]
    /\ pc' = [pc EXCEPT ![r] = "acquired"]
    /\ UNCHANGED <<sales, customers, today, ep, params, fault, servedOn, resp>>

\* The request is cancelled between the dependency and the handler (the
\* handlers themselves never await): no response, the generator is closed.
Cancel(r) ==
    /\ pc[r] = "acquired"
    /\ pc' = [pc EXCEPT ![r] = "cleanup"]
    /\ UNCHANGED <<sales, customers, today, ep, params, db, acquired, fault, servedOn, resp, sessions>>

Served(r, failAt, response) ==
    /\ resp' = [resp EXCEPT ![r] = response]
    /\ fault' = [fault EXCEPT ![r] = failAt]
    /\ servedOn' = [servedOn EXCEPT ![r] = today]
    /\ pc' = [pc EXCEPT ![r] = "cleanup"]
    /\ UNCHANGED <<today, ep, params, db, acquired, sessions>>

HealthCheck(r) ==
    /\ pc[r] = "acquired" /\ ep[r] = "health"
    /\ \E failAt \in 0..Queries("health") : Served(r, failAt, HealthResponse(today, failAt))
    /\ UNCHANGED tables

GetSalesAnalytics(r) ==
    /\ pc[r] = "acquired" /\ ep[r] = "sales"
    /\ \E failAt \in 0..Queries("sales"), plan \in Plans :
           Served(r, failAt, SalesResponse(sales, today, params[r], failAt, plan))
    /\ UNCHANGED tables

GetCustomerAnalytics(r) ==
    /\ pc[r] = "acquired" /\ ep[r] = "customers"
    /\ \E failAt \in 0..Queries("customers"), plan \in Plans :
           Served(r, failAt, CustomerResponse(customers, params[r], failAt, plan))
    /\ UNCHANGED tables

GetProductAnalytics(r) ==
    /\ pc[r] = "acquired" /\ ep[r] = "products"
    /\ \E failAt \in 0..Queries("products"), plan \in Plans :
           Served(r, failAt, ProductResponse(sales, params[r], failAt, plan))
    /\ UNCHANGED tables

SeedSampleData(r) ==
    /\ pc[r] = "acquired" /\ ep[r] = "seed"
    /\ \E failAt \in 0..Queries("seed") : Served(r, failAt, SeedResponse(sales, failAt))
    /\ sales' = SeedRows(sales)
    /\ UNCHANGED customers

\* get_db after its yield: the finally clause.
Release(r) ==
    /\ pc[r] = "cleanup"
    /\ sessions' = CloseSession(sessions, db[r])
    /\ pc' = [pc EXCEPT ![r] = "done"]
    /\ UNCHANGED <<sales, customers, today, ep, params, db, acquired, fault, servedOn, resp>>

\* Midnight passes.
Tick ==
    /\ today + 1 \in Days
    /\ today' = today + 1
    /\ UNCHANGED <<sales, customers, pc, ep, params, db, acquired, fault, servedOn, resp, sessions>>

Step(r) ==
    \/ Root(r)
    \/ Acquire(r)
    \/ Cancel(r)
    \/ HealthCheck(r)
    \/ GetSalesAnalytics(r)
    \/ GetCustomerAnalytics(r)
    \/ GetProductAnalytics(r)
    \/ SeedSampleData(r)
    \/ Release(r)
    \/ Complete(r)

\* One request at a time, every parameter combination.
Next ==
    \/ \E e \in Endpoints : \E p \in ParamsOf(e) : Receive(1, e, p)
    \/ Step(1)
    \/ Tick

Spec == Init /\ [][Next]_vars

\* Two databases, one with ties on the ordering values of the customer list
\* and of the sales list, one without; the sales dates either left to their
\* defaults or both given.
RowsOf(U, ids) == {x \in U : x.id \in ids}
SalesOf(tids) == {x \in SalesUniverse : x.tid \in tids}

PairDatabases ==
    {Database(SalesOf({1, 2, 3, 4}), RowsOf(CustomerUniverse, {2, 3})),
     Database(SalesOf({1, 4, 5}), RowsOf(CustomerUniverse, {1, 4}))}

PairParamsOf(e) ==
    IF e = "sales"
    THEN {NoParams, [NoParams EXCEPT !.start = SomeDate(41), !.end = SomeDate(43)]}
    ELSE {NoParams}

\* A request and its repetition, served in any order and on any days.
Pair == {1, 2}

InitRepeat == InitFrom(PairDatabases, Days)

NextRepeat ==
    \/ \E r \in Pair : \E e \in Endpoints : \E p \in PairParamsOf(e) : Receive(r, e, p)
    \/ \E r \in Pair : Step(r)
    \/ Tick

SpecRepeat == InitRepeat /\ [][NextRepeat]_vars

\* Concurrent requests: every slot serves requests of every route, within
\* one day and over one database.
InitConc == InitFrom({Database(SalesOf({1, 4, 5}), RowsOf(CustomerUniverse, {1, 4}))}, {43})

NextConc ==
    \/ \E r \in Slots : \E e \in Endpoints : Receive(r, e, NoParams)
    \/ \E r \in Slots : Step(r)

SpecConc == InitConc /\ [][NextConc]_vars

\* ======================================================================
\* Properties
\* ======================================================================
Completed(r) == pc[r] \in {"cleanup", "done"}
\* The handler of the request in slot r, a request to route e, has run.
Answered(r, e) == Completed(r) /\ ep[r] = e /\ resp[r].status # 0
Succeeded(r, e) == Answered(r, e) /\ resp[r].status = 200

\* The rows the WHERE clause of the sales request in slot r selected.
SalesSelected(r) == Selected(sales, ParseWhere(SalesWhereText(params[r], servedOn[r])))

\* ---------------------------------------------------------------- C1
\* The rows the spec's filter names: dated from start_date to end_date, both
\* days included whatever the time of day, and equal to the region and the
\* channel when one is given.
ClaimedRows(p, now) ==
    {x \in sales : /\ StartDate(p, now) <= x.day
                   /\ x.day <= EndDate(p, now)
                   /\ (p.region.given => x.region = p.region.v)
                   /\ (p.channel.given => x.channel = p.channel.v)}

\* C1: a sales response reports as total_revenue the sum of total_amount and
\* as total_transactions the number of exactly the rows dated within
\* [start_date, end_date], end points included, that match the given region
\* and channel.
C1_SalesTotals ==
    \A r \in Slots :
        Succeeded(r, "sales") =>
            LET rows == ClaimedRows(params[r], servedOn[r]) IN
            /\ resp[r].body.total_revenue = <<SumField(rows, "amount"), 1>>
            /\ resp[r].body.total_transactions = Cardinality(rows)

\* ---------------------------------------------------------------- C2
\* C2: a customer response reports the row count, the number of active rows
\* and active / total * 100; over an empty table it is a normal response of
\* zeros and an empty list, and only a storage failure makes it an error.
C2_CustomerCounts ==
    \A r \in Slots :
        Answered(r, "customers") =>
            LET total == Cardinality(customers)
                active == Cardinality({c \in customers : c.active})
                b == resp[r].body
            IN /\ fault[r] = 0 => resp[r].status = 200
               /\ resp[r].status = 200 =>
                    /\ b.total_customers = total
                    /\ b.active_customers = active
                    /\ total > 0 =>
                         /\ b.customer_retention_rate[1] * total
                                = active * 100 * b.customer_retention_rate[2]
                         /\ b.customer_retention_rate[2] > 0
                    /\ total = 0 =>
                         /\ b.total_customers = 0
                         /\ b.active_customers = 0
                         /\ b.avg_customer_lifetime_value = <<0, 1>>
                         /\ b.customer_retention_rate = <<0, 1>>
                         /\ b.top_customers = <<>>

C2_Witness ==
    \E r \in Slots : Succeeded(r, "customers") /\ customers = {} /\ pc[r] = "done"

\* ---------------------------------------------------------------- C3
\* How many entries of a list satisfy a test, in terms of positions.
Positions(list, e) == {i \in 1..Len(list) : list[i] = e}

\* The (product_name, product_id) pairs of a set of rows, and the entry a
\* pair stands for.
ProductKeys(S) == {<<x.name, x.pid>> : x \in S}
KeyRows(S, key) == {x \in S : <<x.name, x.pid>> = key}
KeyEntry(S, key) ==
    [product_name |-> key[1],
     total_quantity |-> SumField(KeyRows(S, key), "qty"),
     total_revenue |-> SumField(KeyRows(S, key), "amount")]

\* The same per product_id alone.
IdRows(S, id) == {x \in S : x.pid = id}

Smaller(a, b) == IF a < b THEN a ELSE b

\* C3 as amended: top_selling_products has at most 10 entries and as many as
\* there are (product_name, product_id) pairs among the selected rows when
\* these are fewer; every entry is the name, summed quantity and summed amount
\* of one such pair and no pair is listed twice; revenues do not increase
\* along the list; and every pair with more revenue than the last entry is in
\* the list.
C3_TopSellingProducts ==
    \A r \in Slots :
        Succeeded(r, "sales") =>
            LET S == SalesSelected(r)
                keys == ProductKeys(S)
                top == resp[r].body.top_selling_products
                n == Len(top)
            IN /\ n <= 10
               /\ n = Smaller(10, Cardinality(keys))
               /\ \A i \in 1..n :
                      Cardinality(Positions(top, top[i]))
                          <= Cardinality({k \in keys : KeyEntry(S, k) = top[i]})
               /\ \A i \in 1..(n - 1) : top[i].total_revenue >= top[i + 1].total_revenue
               /\ n > 0 =>
                      Cardinality({k \in keys :
                                      KeyEntry(S, k).total_revenue > top[n].total_revenue})
                          = Cardinality({i \in 1..n :
                                      top[i].total_revenue > top[n].total_revenue})

\* More pairs than the limit were selected and the list was cut.
C3_Witness ==
    \E r \in Slots :
        /\ Succeeded(r, "sales")
        /\ Len(resp[r].body.top_selling_products) = 10
        /\ Cardinality(ProductKeys(SalesSelected(r))) > 10

\* C3 as stated: one entry per product, a product being a product_id, each
\* entry carrying that product's sums over the selected rows.
C3_OnePerProductId ==
    \A r \in Slots :
        Succeeded(r, "sales") =>
            LET S == SalesSelected(r)
                ids == {x.pid : x \in S}
                top == resp[r].body.top_selling_products
            IN /\ Len(top) = Smaller(10, Cardinality(ids))
               /\ \A i \in 1..Len(top) :
                      \E id \in ids :
                          /\ top[i].total_quantity = SumField(IdRows(S, id), "qty")
                          /\ top[i].total_revenue = SumField(IdRows(S, id), "amount")

\* ---------------------------------------------------------------- C4
Aggregations == {"sales", "customers", "products"}

\* C4: when a storage call of an aggregation handler fails, the first or a
\* later one, the request ends with status 500 and a body of nothing but the
\* generic detail; every error response of these routes has that shape.
C4_FailureIsGeneric500 ==
    \A r \in Slots :
        Completed(r) /\ ep[r] \in Aggregations =>
            /\ fault[r] # 0 => resp[r].status = 500
            /\ resp[r].status \in {0, 200, 500}
            /\ resp[r].status = 500 =>
                   /\ DOMAIN resp[r].body = {"detail"}
                   /\ resp[r].body.detail = "Internal server error"

\* A later call failed after the first had succeeded.
C4_Witness ==
    \E r \in Slots :
        /\ Completed(r) /\ ep[r] \in Aggregations
        /\ fault[r] > 1
        /\ resp[r].status = 500

\* ---------------------------------------------------------------- C5
AllZero(b) ==
    /\ b.total_revenue = <<0, 1>>
    /\ b.total_transactions = 0
    /\ b.avg_transaction_value = <<0, 1>>
    /\ b.top_selling_products = <<>>
    /\ DOMAIN b.revenue_by_region = {}
    /\ DOMAIN b.revenue_by_channel = {}

Inverted(p) == p.start.given /\ p.end.given /\ p.start.d > p.end.d

\* C5: a sales request with start_date > end_date, with or without region
\* and channel, whose storage calls are all served, is answered normally with
\* zero totals and empty collections, never with an error.
C5_InvertedRangeIsEmpty ==
    \A r \in Slots :
        Answered(r, "sales") /\ Inverted(params[r]) /\ fault[r] = 0 =>
            /\ resp[r].status = 200
            /\ AllZero(resp[r].body)

\* ---------------------------------------------------------------- C6
\* C6: the health check never answers with an error; its status and
\* database_status are healthy exactly when the SELECT 1 succeeded, whatever
\* the tables hold.
C6_HealthNeverRaises ==
    \A r \in Slots :
        Completed(r) /\ ep[r] = "health" =>
            /\ resp[r].status \in {0, 200}
            /\ resp[r].status = 200 =>
                   /\ resp[r].body.status = "healthy" <=> fault[r] = 0
                   /\ resp[r].body.status = "unhealthy" <=> fault[r] # 0
                   /\ resp[r].body.database_status = resp[r].body.status

\* The round trip failed over a table that is not empty.
C6_Witness ==
    \E r \in Slots :
        /\ Succeeded(r, "health") /\ fault[r] # 0
        /\ resp[r].body.status = "unhealthy"
        /\ sales # {}

\* ---------------------------------------------------------------- C7
\* C7: in a product response category_performance has one item per category
\* of the table with its summed amount, total_categories counts them, the
\* most (least) profitable category is one of largest (smallest) revenue, and
\* both are null exactly when there is no category.
C7_InventoryInsights ==
    \A r \in Slots :
        Succeeded(r, "products") =>
            LET items == resp[r].body.category_performance
                ins == resp[r].body.inventory_insights
                cats == {x.category : x \in sales}
                idx == 1..Len(items)
            IN /\ {items[i].category : i \in idx} = cats
               /\ Len(items) = Cardinality(cats)
               /\ \A i \in idx :
                      items[i].revenue
                          = SumField({x \in sales : x.category = items[i].category}, "amount")
               /\ ins.total_categories = Cardinality({items[i].category : i \in idx})
               /\ ins.most_profitable_category.isnull <=> items = <<>>
               /\ ins.least_profitable_category.isnull <=> items = <<>>
               /\ items # <<>> =>
                      /\ \E i \in idx :
                             /\ items[i].category = ins.most_profitable_category.v
                             /\ \A j \in idx : items[j].revenue <= items[i].revenue
                      /\ \E i \in idx :
                             /\ items[i].category = ins.least_profitable_category.v
                             /\ \A j \in idx : items[j].revenue >= items[i].revenue

\* A filtered request over two categories of different revenue.
C7_Witness ==
    \E r \in Slots :
        /\ Succeeded(r, "products")
        /\ Truthy(params[r].category)
        /\ Len(resp[r].body.category_performance) >= 2
        /\ resp[r].body.category_performance[1].revenue
               > resp[r].body.category_performance[2].revenue

Comparable(a, b) ==
    /\ a # b
    /\ ep[a] \in Aggregations /\ ep[b] = ep[a]
    /\ params[b] = params[a]
    /\ Succeeded(a, ep[a]) /\ Succeeded(b, ep[b])

\* C8 as stated: the two responses are the same, ties and defaulted dates
\* included.
C8_Idempotent ==
    \A a \in Slots : \A b \in Slots : Comparable(a, b) => resp[a] = resp[b]

NoTie(G, key) == \A g \in G : \A h \in G : g # h => g[key] # h[key]

\* No two candidates of an ordered list of the request's bundle have the
\* same ordering value.
NoTies(r) ==
    IF ep[r] = "sales" THEN NoTie(SalesGroups(SalesSelected(r)), "total_revenue")
    ELSE IF ep[r] = "customers" THEN NoTie(customers, "clv")
    ELSE /\ NoTie(ProductGroups(IF Truthy(params[r].category)
                                THEN Selected(sales, ParseWhere(ProductWhereText(params[r])))
                                ELSE sales), "total_revenue")
         /\ NoTie({[category |-> c,
                    revenue |-> SumField({x \in sales : x.category = c}, "amount")]
                   : c \in {x.category : x \in sales}}, "revenue")

\* The end date does not depend on the day of the call.
SameWindow(a, b) == ep[a] = "sales" => params[a].end.given \/ servedOn[a] = servedOn[b]

\* C8 as amended: the two responses are the same when no two candidates of
\* an ordered list tie on the ordering value and, for sales, the end date is
\* given or both requests are served on the same day.
C8_IdempotentWithoutTies ==
    \A a \in Slots : \A b \in Slots :
        Comparable(a, b) /\ SameWindow(a, b) /\ NoTies(a) => resp[a] = resp[b]

\* The same dated sales request answered on two different days, its list
\* not empty and free of ties.
C8_Witness ==
    \E a \in Slots : \E b \in Slots :
        /\ Comparable(a, b) /\ ep[a] = "sales"
        /\ params[a].end.given
        /\ servedOn[a] # servedOn[b]
        /\ NoTies(a)
        /\ Len(resp[a].body.top_selling_products) >= 2

\* --------------------------------------------------------------- C10
\* C10: a request of a route that depends on get_db is given exactly one
\* session, holds it while it is handled, and holds none once it is over,
\* however it ended; a session is closed only by the request it was opened
\* for, in that request's release.
C10_SessionPerRequest ==
    /\ [](\A r \in Slots :
              /\ pc[r] \in {"acquired", "cleanup"} =>
                     acquired[r] = 1 /\ db[r] # 0 /\ sessions[db[r]] = r
              /\ pc[r] = "done" /\ ep[r] # "root" => acquired[r] = 1
              /\ pc[r] \in {"idle", "received", "done"} =>
                     \A s \in DOMAIN sessions : sessions[s] # r
              /\ Cardinality({s \in DOMAIN sessions : sessions[s] = r}) <= 1)
    /\ [][\A s \in DOMAIN sessions :
              sessions[s] # 0 /\ sessions'[s] # sessions[s] =>
                  /\ pc[sessions[s]] = "cleanup"
                  /\ pc'[sessions[s]] = "done"
                  /\ db[sessions[s]] = s]_vars

\* A request that ended in an error is over and its session closed while
\* another request still holds its own.
C10_Witness ==
    \E a \in Slots : \E b \in Slots :
        /\ pc[a] = "done" /\ resp[a].status = 500 /\ db[a] # 0
        /\ pc[b] = "acquired" /\ sessions[db[b]] = b
        /\ \A s \in DOMAIN sessions : sessions[s] # a

====
